---- MODULE Spec2Model ----
\* A model of the Flask application in src/app: the unauthenticated todo REST
\* resource (src/app/__init__.py) and the session-protected workout routes
\* (src/app/main.py) over the tables of src/app/models.py.
EXTENDS Integers, Sequences, FiniteSets, TLC

\* ---------------------------------------------------------------- bounds
\* Todo ids the requests address: /todos/<int:todo_id>.
MaxId == 2
\* Number of concurrent POST /todos/<id> requests in TodoRaceSpec.
NumClients == 2
\* Largest workout primary key the store hands out.
MaxWorkoutId == 4
\* Largest workout primary key of the tables PageSpec lists.
MaxListed == 7

TodoIds == 1..MaxId
Clients == 1..NumClients

\* Python's None. Every other string of the model is a request value.
None == "None"
\* Values of the 'task' and 'summary' request arguments (str).
Tasks == {"", "write", "read"}
Summaries == {"", "code"}

VARIABLES
    store,      \* table to_do_model: a set of rows [id, task, summary]
    last,       \* the response of the last todo request handled, with its request
    clients,    \* concurrent POST requests: position, arguments and response
    users,      \* table user: id -> [email, name]
    workouts,   \* table workout: id -> [pushups, comment, user_id]
    wlast       \* the response of the last request to the main blueprint

vars == <<store, last, clients, users, workouts, wlast>>

\* ------------------------------------------------------- the todo resource

\* ToDoModel(id=..., task=..., summary=...)
ToDoModelSwapped(id, task, summary) == [id |-> id, task |-> summary, summary |-> task]
ToDoModel(id, task, summary) == [id |-> id, task |-> task, summary |-> summary]

\* ToDoModel.query.get(todo_id): <<row>> or <<>> (None).
QueryGet(st, id) ==
    IF \E r \in st : r.id = id
    THEN <<CHOOSE r \in st : r.id = id>>
    ELSE <<>>

\* What marshal() is handed. A model row answers to its column names; the
\* dict built by All_Todo.get has integer keys only; '' has neither.
PyRow(r) == [keys |-> "str", map |-> r]
PyIntDict(d) == [keys |-> "int", map |-> d]
PyStr(s) == [keys |-> "none", map |-> <<>>]

\* flask_restful.fields.get_value(key, obj) for a string key: obj[key], else
\* getattr(obj, key, None). <<>> is None. A string key is never an integer key.
GetValue(key, obj) ==
    IF obj.keys = "str" /\ key \in DOMAIN obj.map
    THEN <<obj.map[key]>>
    ELSE <<>>

\* fields.Integer: default 0 when the value is None.
FieldInteger(v) == IF v = <<>> THEN 0 ELSE v[1]
\* fields.String: None stays None.
FieldString(v) == IF v = <<>> THEN None ELSE v[1]

\* marshal(data, resource_fields): one output per field of resource_fields.
Marshal(obj) ==
    [id |-> FieldInteger(GetValue("id", obj)),
     task |-> FieldString(GetValue("task", obj)),
     summary |-> FieldString(GetValue("summary", obj))]

NoArgs == [task |-> None, summary |-> None]

\* A marshalled response, and an abort(code, message).
Resp(op, id, args, status, obj) ==
    [op |-> op, id |-> id, args |-> args, status |-> status,
     body |-> <<Marshal(obj)>>, msg |-> ""]
Abort(op, id, args, status, msg) ==
    [op |-> op, id |-> id, args |-> args, status |-> status,
     body |-> <<>>, msg |-> msg]

\* db.session.add(row); db.session.commit(): the primary key of to_do_model
\* rejects a second row with the same id (IntegrityError), and nothing is written.
InsertCommitAllowDuplicate(st, row) == [ok |-> TRUE, st |-> st \cup {row}]
InsertCommit(st, row) ==
    IF \E r \in st : r.id = row.id
    THEN [ok |-> FALSE, st |-> st]
    ELSE [ok |-> TRUE, st |-> st \cup {row}]

\* GET /todos/<id>
GetResponse(st, id) ==
    LET todo == QueryGet(st, id) IN
    IF todo = <<>>
    THEN Abort("get", id, NoArgs, 404, "Task not found")
    ELSE Resp("get", id, NoArgs, 200, PyRow(todo[1]))

Get(id) ==
    /\ last' = GetResponse(store, id)
    /\ UNCHANGED <<store, clients, users, workouts, wlast>>

\* POST /todos/<id> with task and summary (both required), one request at a time.
PostUpsert(id, task, summary) ==
    /\ store' = {r \in store : r.id # id} \cup {ToDoModel(id, task, summary)}
    /\ last' = Resp("post", id, [task |-> task, summary |-> summary], 201,
                    PyRow(ToDoModel(id, task, summary)))
    /\ UNCHANGED <<clients, users, workouts, wlast>>
Post(id, task, summary) ==
    LET args == [task |-> task, summary |-> summary]
        todo == QueryGet(store, id)
        new_todo == ToDoModel(id, args.task, args.summary)
        done == InsertCommit(store, new_todo)
    IN  /\ IF todo # <<>>
           THEN /\ last' = Abort("post", id, args, 409, "Task already exists")
                /\ store' = store
           ELSE /\ store' = done.st
                /\ last' = IF done.ok
                           THEN Resp("post", id, args, 201, PyRow(new_todo))
                           ELSE Abort("post", id, args, 500, "IntegrityError")
        /\ UNCHANGED <<clients, users, workouts, wlast>>

\* Python truthiness of a parsed argument: None and '' are both false.
Truthy(v) == v # None /\ v # ""

\* PUT /todos/<id>; an argument that is not supplied parses to None.
Put(id, task, summary) ==
    LET args == [task |-> task, summary |-> summary]
        todo == QueryGet(store, id)
    IN  /\ IF todo = <<>>
           THEN /\ last' = Abort("put", id, args, 404, "Task not found")
                /\ store' = store
           ELSE LET t1 == IF Truthy(args.task) THEN args.task ELSE todo[1].task
                    s1 == IF Truthy(args.summary) THEN args.summary
                          ELSE todo[1].summary
                    updated == ToDoModel(id, t1, s1)
                IN  /\ store' = {r \in store : r.id # id} \cup {updated}
                    /\ last' = Resp("put", id, args, 200, PyRow(updated))
        /\ UNCHANGED <<clients, users, workouts, wlast>>

\* DELETE /todos/<id>; the '' it returns goes through marshal_with as well.
DeleteKeepsRow(id) ==
    /\ store' = store
    /\ last' = IF QueryGet(store, id) = <<>>
               THEN Abort("delete", id, NoArgs, 404, "Task not found")
               ELSE Resp("delete", id, NoArgs, 204, PyStr(""))
    /\ UNCHANGED <<clients, users, workouts, wlast>>
Delete(id) ==
    LET todo == QueryGet(store, id) IN
    /\ IF todo = <<>>
       THEN /\ last' = Abort("delete", id, NoArgs, 404, "Task not found")
            /\ store' = store
       ELSE /\ store' = store \ {todo[1]}
            /\ last' = Resp("delete", id, NoArgs, 204, PyStr(""))
    /\ UNCHANGED <<clients, users, workouts, wlast>>

\* The dict All_Todo.get builds: todos[task.id] = {task, summary}.
TodosDict(st) ==
    [i \in {r.id : r \in st} |->
        LET r == CHOOSE x \in st : x.id = i
        IN  [task |-> r.task, summary |-> r.summary]]

\* GET /all-todos: the dict is returned through marshal_with(resource_fields).
AllTodo ==
    /\ last' = Resp("all", 0, NoArgs, 200, PyIntDict(TodosDict(store)))
    /\ UNCHANGED <<store, clients, users, workouts, wlast>>

\* ------------------------------------- concurrent POST /todos/<id> requests
\* ToDo.post as the two steps a concurrent request interleaves at: parse_args
\* and query.get (lines 53-56), then add and commit (lines 58-61).

IdleClient == [pc |-> "start", id |-> 0, args |-> NoArgs, status |-> 0, body |-> <<>>]

PostLookup(c, id, task, summary) ==
    LET args == [task |-> task, summary |-> summary]
        todo == QueryGet(store, id)
    IN  /\ clients[c].pc = "start"
        /\ clients' = [clients EXCEPT ![c] =
              IF todo # <<>>
              THEN [pc |-> "done", id |-> id, args |-> args, status |-> 409,
                    body |-> <<>>]
              ELSE [pc |-> "looked", id |-> id, args |-> args, status |-> 0,
                    body |-> <<>>]]
        /\ UNCHANGED <<store, last, users, workouts, wlast>>

PostCommit(c) ==
    LET me == clients[c]
        new_todo == ToDoModel(me.id, me.args.task, me.args.summary)
        done == InsertCommit(store, new_todo)
    IN  /\ me.pc = "looked"
        /\ store' = done.st
        /\ clients' = [clients EXCEPT ![c] =
              IF done.ok
              THEN [me EXCEPT !.pc = "done", !.status = 201,
                              !.body = <<Marshal(PyRow(new_todo))>>]
              ELSE [me EXCEPT !.pc = "done", !.status = 500]]
        /\ UNCHANGED <<last, users, workouts, wlast>>

\* ------------------------------------------------ users, sessions, workouts

\* The accounts registered, in this order; user.email is unique.
Accounts == <<[email |-> "a@x.io", name |-> "Ann"], [email |-> "b@x.io", name |-> "Bob"]>>
\* User ids a session cookie can carry; <<>> is a request without a session.
SessionUserIds == 1..Len(Accounts)
Sessions == {<<>>} \cup {<<u>> : u \in SessionUserIds}
Methods == {"GET", "POST"}
WorkoutIds == 1..MaxWorkoutId

\* paginate(per_page=3)
PerPage == 3

\* request.form of the workout forms: the fields arrive as strings, a missing
\* field is None.
Forms == {[pushups |-> "10", comment |-> "easy"],
          [pushups |-> "20", comment |-> None],
          [pushups |-> None, comment |-> "hard"]}

\* The query string's page: absent, not a number, or a number.
PageNumber(k) == [kind |-> "int", n |-> k]
PageAbsent == [kind |-> "absent", n |-> 0]
PageArgs(rows) == {PageAbsent, [kind |-> "text", n |-> 0]}
                  \cup {PageNumber(k) : k \in 0..((rows + PerPage) \div PerPage + 1)}

\* The Integer column pushups: the form's digits are stored as the number.
PushupsColumn(p) == IF p = "10" THEN 10 ELSE 20

Max(S) == CHOOSE m \in S : \A x \in S : x <= m
Min(S) == CHOOSE m \in S : \A x \in S : m <= x

\* The rows of a query without ORDER BY come in primary-key order.
RECURSIVE InKeyOrder(_)
InKeyOrder(S) ==
    IF S = {} THEN <<>> ELSE <<Min(S)>> \o InKeyOrder(S \ {Min(S)})

\* The integer primary key the store generates: one more than the largest.
NextKey(table) == IF DOMAIN table = {} THEN 1 ELSE Max(DOMAIN table) + 1

\* A response of the main blueprint to the session sid: a status, a redirect's
\* target, and what the rendered page shows.
WResp(op, sid, status, location) ==
    [op |-> op, sid |-> sid, status |-> status, location |-> location,
     items |-> <<>>, page |-> 0, pages |-> 0, total |-> 0, name |-> None]

\* The registration of the auth blueprint: a new user with a generated id and
\* an email no other user has.
Register ==
    /\ NextKey(users) <= Len(Accounts)
    /\ \A u \in DOMAIN users : users[u].email # Accounts[NextKey(users)].email
    /\ users' = users @@ (NextKey(users) :> Accounts[NextKey(users)])
    /\ wlast' = WResp("register", <<>>, 302, "auth.login")
    /\ UNCHANGED <<store, last, clients, workouts>>

\* load_user(user_id): User.query.get(int(user_id)); <<>> is None.
LoadUser(sid) ==
    IF sid # <<>> /\ sid[1] \in DOMAIN users THEN <<sid[1]>> ELSE <<>>

\* @login_required: current_user.is_authenticated, the user load_user found.
LoginRequired(sid) == LoadUser(sid) # <<>>

\* login_manager.unauthorized() with login_view = 'auth.login'.
Unauthorized(op, sid) == WResp(op, sid, 302, "auth.login")

\* GET /profile
Profile(sid) ==
    /\ wlast' = IF ~LoginRequired(sid)
                THEN Unauthorized("profile", sid)
                ELSE [WResp("profile", sid, 200, "")
                        EXCEPT !.name = users[sid[1]].name]
    /\ UNCHANGED <<store, last, clients, users, workouts>>

\* GET/POST /new
NewWorkout(sid, method, form) ==
    /\ NextKey(workouts) \in WorkoutIds
    /\ IF ~LoginRequired(sid)
       THEN /\ wlast' = Unauthorized("new", sid)
            /\ workouts' = workouts
       ELSE IF method = "POST"
       THEN IF form.pushups = None
            THEN \* pushups is nullable=False: the commit raises
                 /\ wlast' = WResp("new", sid, 500, "")
                 /\ workouts' = workouts
            ELSE /\ workouts' = workouts @@ (NextKey(workouts) :>
                        [pushups |-> PushupsColumn(form.pushups),
                         comment |-> form.comment, user_id |-> sid[1]])
                 /\ wlast' = WResp("new", sid, 302,
                                   "main.user_workouts")
       ELSE /\ wlast' = WResp("new", sid, 200, "")
            /\ workouts' = workouts
    /\ UNCHANGED <<store, last, clients, users>>

\* request.args.get('page', 1, type=int)
PageParam(arg) == IF arg.kind = "int" THEN arg.n ELSE 1

\* Workout.query.filter_by(author=user): the ids of the user's workouts.
FilterAll(user) == DOMAIN workouts
FilterByAuthor(user) == {w \in DOMAIN workouts : workouts[w].user_id = user}

\* query.paginate(page=page, per_page=per_page) over rows: <<>> is abort(404).
PaginateOffByOne(rows, page, per_page) ==
    LET first == page * per_page + 1
        lastix == IF (page + 1) * per_page < Len(rows)
                  THEN (page + 1) * per_page ELSE Len(rows)
        items == SubSeq(rows, first, lastix)
    IN  IF page < 1 \/ (items = <<>> /\ page # 1)
        THEN <<>>
        ELSE <<[items |-> items, page |-> page, total |-> Len(rows),
                pages |-> (Len(rows) + per_page - 1) \div per_page]>>
Paginate(rows, page, per_page) ==
    LET first == (page - 1) * per_page + 1
        lastix == IF page * per_page < Len(rows) THEN page * per_page ELSE Len(rows)
        items == SubSeq(rows, first, lastix)
    IN  IF page < 1 \/ (items = <<>> /\ page # 1)
        THEN <<>>
        ELSE <<[items |-> items, page |-> page, total |-> Len(rows),
                pages |-> (Len(rows) + per_page - 1) \div per_page]>>

\* GET /all?page=...
UserWorkoutsResponse(sid, arg) ==
    IF ~LoginRequired(sid)
    THEN Unauthorized("list", sid)
    ELSE LET email == users[sid[1]].email
             found == {u \in DOMAIN users : users[u].email = email}
         IN  IF found = {}
             THEN WResp("list", sid, 404, "")
             ELSE LET user == Min(found)
                      page == PageParam(arg)
                      p == Paginate(InKeyOrder(FilterByAuthor(user)), page, PerPage)
                  IN  IF p = <<>>
                      THEN WResp("list", sid, 404, "")
                      ELSE [WResp("list", sid, 200, "") EXCEPT
                               !.items = p[1].items, !.page = p[1].page,
                               !.pages = p[1].pages, !.total = p[1].total]

UserWorkouts(sid, arg) ==
    /\ wlast' = UserWorkoutsResponse(sid, arg)
    /\ UNCHANGED <<store, last, clients, users, workouts>>

\* GET/POST /workout/<id>/update
UpdateWorkout(sid, method, wid, form) ==
    /\ IF ~LoginRequired(sid)
       THEN /\ wlast' = Unauthorized("update", sid)
            /\ workouts' = workouts
       ELSE IF wid \notin DOMAIN workouts
       THEN /\ wlast' = WResp("update", sid, 404, "")
            /\ workouts' = workouts
       ELSE IF method = "POST"
       THEN IF form.pushups = None
            THEN /\ wlast' = WResp("update", sid, 500, "")
                 /\ workouts' = workouts
            ELSE /\ workouts' = [workouts EXCEPT
                        ![wid].pushups = PushupsColumn(form.pushups),
                        ![wid].comment = form.comment]
                 /\ wlast' = WResp("update", sid, 302,
                                   "main.user_workouts")
       ELSE /\ wlast' = WResp("update", sid, 200, "")
            /\ workouts' = workouts
    /\ UNCHANGED <<store, last, clients, users>>

\* GET/POST /workout/<id>/delete: the handler does not look at the method.
DeleteWorkoutUnguarded(sid, wid) ==
    /\ IF wid \notin DOMAIN workouts
       THEN /\ wlast' = WResp("delete", sid, 404, "")
            /\ workouts' = workouts
       ELSE /\ workouts' = [w \in DOMAIN workouts \ {wid} |-> workouts[w]]
            /\ wlast' = WResp("delete", sid, 302, "main.user_workouts")
    /\ UNCHANGED <<store, last, clients, users>>
DeleteWorkout(sid, wid) ==
    /\ IF ~LoginRequired(sid)
       THEN /\ wlast' = Unauthorized("delete", sid)
            /\ workouts' = workouts
       ELSE IF wid \notin DOMAIN workouts
       THEN /\ wlast' = WResp("delete", sid, 404, "")
            /\ workouts' = workouts
       ELSE /\ workouts' = [w \in DOMAIN workouts \ {wid} |-> workouts[w]]
            /\ wlast' = WResp("delete", sid, 302, "main.user_workouts")
    /\ UNCHANGED <<store, last, clients, users>>

\* ------------------------------------------------------------ specifications

Init ==
    /\ store = {}
    /\ last = Abort("none", 0, NoArgs, 0, "")
    /\ clients = [c \in Clients |-> IdleClient]
    /\ users = <<>>
    /\ workouts = <<>>
    /\ wlast = WResp("none", <<>>, 0, "")

TodoNext ==
    \/ \E id \in TodoIds : Get(id)
    \/ \E id \in TodoIds, t \in Tasks, s \in Summaries : Post(id, t, s)
    \/ \E id \in TodoIds, t \in Tasks \cup {None}, s \in Summaries \cup {None} :
          Put(id, t, s)
    \/ \E id \in TodoIds : Delete(id)
    \/ AllTodo

TodoSpec == Init /\ [][TodoNext]_vars

TodoRaceNext ==
    \/ \E c \in Clients, id \in TodoIds, t \in Tasks, s \in Summaries :
          PostLookup(c, id, t, s)
    \/ \E c \in Clients : PostCommit(c)

TodoRaceSpec == Init /\ [][TodoRaceNext]_vars

WorkoutNext ==
    \/ Register
    \/ \E sid \in Sessions : Profile(sid)
    \/ \E sid \in Sessions, m \in Methods, f \in Forms : NewWorkout(sid, m, f)
    \/ \E sid \in Sessions, a \in PageArgs(MaxWorkoutId) : UserWorkouts(sid, a)
    \/ \E sid \in Sessions, m \in Methods, w \in WorkoutIds, f \in Forms :
          UpdateWorkout(sid, m, w, f)
    \/ \E sid \in Sessions, w \in WorkoutIds : DeleteWorkout(sid, w)

WorkoutSpec == Init /\ [][WorkoutNext]_vars

\* The listing alone, over every table of workouts the two users can have
\* built up with keys up to MaxListed.
PageInit ==
    /\ store = {}
    /\ last = Abort("none", 0, NoArgs, 0, "")
    /\ clients = [c \in Clients |-> IdleClient]
    /\ users = [u \in 1..Len(Accounts) |-> Accounts[u]]
    /\ \E S \in SUBSET (1..MaxListed) :
          workouts \in [S -> [pushups : {10}, comment : {"easy"},
                              user_id : 1..Len(Accounts)]]
    /\ wlast = WResp("none", <<>>, 0, "")

PageNext == \E sid \in Sessions, a \in PageArgs(MaxListed) : UserWorkouts(sid, a)

PageSpec == PageInit /\ [][PageNext]_vars

Next == TodoNext \/ TodoRaceNext \/ WorkoutNext

Spec == Init /\ [][Next]_vars

\* -------------------------------------------------------------------- claims

Found(st, id) == QueryGet(st, id) # <<>>
Row(st, id) == QueryGet(st, id)[1]

\* C1: a POST /todos/<id> for an id that is stored answers 409 and leaves the
\* whole store, the record of that id included, as it was.
C1_CreateExistingConflicts ==
    [][\A id \in TodoIds, t \in Tasks, s \in Summaries :
          (Found(store, id) /\ Post(id, t, s))
              => (last'.status = 409 /\ store' = store)]_vars

C1_Witness ==
    /\ last.op = "post" /\ last.status = 409
    /\ Found(store, last.id)
    /\ Row(store, last.id).task # last.args.task
    /\ Cardinality(store) > 1

\* C2: a POST /todos/<id> for an id that is not stored answers 201, and the
\* GET /todos/<id> that follows it answers 200 with the id, task and summary
\* that were posted.
C2_CreateThenFetch ==
    [][\A id \in TodoIds :
          /\ \A t \in Tasks, s \in Summaries :
                (~Found(store, id) /\ Post(id, t, s))
                    => (last'.status = 201
                        /\ GetResponse(store', id).body
                             = <<[id |-> id, task |-> t, summary |-> s]>>)
          /\ (last.op = "post" /\ last.status = 201 /\ last.id = id /\ Get(id))
                => (last'.status = 200
                    /\ last'.body = <<[id |-> id, task |-> last.args.task,
                                       summary |-> last.args.summary]>>)]_vars

C2_Witness ==
    /\ last.op = "get" /\ last.status = 200
    /\ last.body[1].task = "write" /\ last.body[1].summary = "code"

\* C3: a PUT /todos/<id> on a stored id with only task (or only summary)
\* supplied sets that field to the supplied string, the empty string included,
\* and leaves the other field as it was.
C3_PartialUpdate ==
    [][\A id \in TodoIds :
          Found(store, id) =>
              /\ \A t \in Tasks :
                    Put(id, t, None)
                        => Row(store', id) = [Row(store, id) EXCEPT !.task = t]
              /\ \A s \in Summaries :
                    Put(id, None, s)
                        => Row(store', id) = [Row(store, id) EXCEPT !.summary = s]]_vars

\* C4: a DELETE /todos/<id> of a stored id answers 204 and removes the record,
\* a GET of an id that is not stored answers 404, and an id that is not stored
\* becomes stored only by a POST of it that answers 201; a DELETE of an id that
\* is not stored answers 404 and leaves the store as it was.
C4_DeleteThenFetch ==
    [][\A id \in TodoIds :
          /\ (Found(store, id) /\ Delete(id))
                => (last'.status = 204 /\ ~Found(store', id)
                    /\ GetResponse(store', id).status = 404)
          /\ (~Found(store, id) /\ Delete(id))
                => (last'.status = 404 /\ store' = store)
          /\ (~Found(store, id) /\ Get(id)) => last'.status = 404
          /\ (~Found(store, id) /\ Found(store', id))
                => (last'.op = "post" /\ last'.id = id /\ last'.status = 201)]_vars

C4_Witness ==
    /\ last.op = "delete" /\ last.status = 204
    /\ ~Found(store, last.id)
    /\ store # {}

\* C5: the response of GET /all-todos maps each stored id to its
\* {task, summary}: it has as many entries as the store has records, and the
\* entry of each record carries that record's task and summary.
C5_ListAllIsTheStore ==
    last.op = "all" =>
        LET body == last.body[1] IN
        /\ Cardinality(DOMAIN body) = Cardinality(store)
        /\ \A r \in store :
              /\ ToString(r.id) \in DOMAIN body
              /\ body[ToString(r.id)] = [task |-> r.task, summary |-> r.summary]

\* C6: a POST to /workout/<id>/update or a request to /workout/<id>/delete by
\* a logged-in user who does not own the workout leaves that workout as it was.
C6_OwnerOnly ==
    [][\A sid \in Sessions, w \in WorkoutIds :
          (/\ LoginRequired(sid)
           /\ w \in DOMAIN workouts
           /\ workouts[w].user_id # sid[1]
           /\ \/ DeleteWorkout(sid, w)
              \/ \E f \in Forms : UpdateWorkout(sid, "POST", w, f))
              => (w \in DOMAIN workouts' /\ workouts'[w] = workouts[w])]_vars

\* C7: a request to /profile, /new, /all, /workout/<id>/update or
\* /workout/<id>/delete with no session, or with a session whose user id
\* load_user does not find, is answered by the redirect to the login view,
\* shows no workout and no user, and leaves the workouts as they were. The
\* response of a step names the route and the session of its request.
C7_UnauthenticatedRejected ==
    [][(/\ wlast'.op \in {"profile", "new", "list", "update", "delete"}
        /\ LoadUser(wlast'.sid) = <<>>)
          => (/\ wlast'.status = 302 /\ wlast'.location = "auth.login"
              /\ wlast'.items = <<>> /\ wlast'.name = None
              /\ workouts' = workouts)]_vars

C7_Witness ==
    /\ wlast.op = "delete" /\ wlast.location = "auth.login"
    /\ wlast.sid # <<>>
    /\ DOMAIN workouts # {}

Owned(u) == {w \in DOMAIN workouts : workouts[w].user_id = u}
Shown(r) == {r.items[i] : i \in 1..Len(r.items)}

\* C8: the page GET /all answers with holds only workouts of the session's
\* user, and over the pages of a user's listing every workout of that user
\* appears on exactly one page, once, and no workout of another user appears.
C8_ListingIsTheOwners ==
    /\ (wlast.op = "list" /\ wlast.status = 200)
          => \A w \in Shown(wlast) :
                w \in DOMAIN workouts /\ workouts[w].user_id = wlast.sid[1]
    /\ \A u \in DOMAIN users :
          LET page(k) == UserWorkoutsResponse(<<u>>, PageNumber(k))
              pages == {k \in 0..(MaxWorkoutId + 1) : page(k).status = 200}
          IN  /\ \A k \in pages :
                    /\ Shown(page(k)) \subseteq Owned(u)
                    /\ Cardinality(Shown(page(k))) = Len(page(k).items)
              /\ \A w \in Owned(u) :
                    Cardinality({k \in pages : w \in Shown(page(k))}) = 1

C8_Witness ==
    /\ wlast.op = "list" /\ wlast.status = 200
    /\ Len(wlast.items) = PerPage
    /\ \E w \in DOMAIN workouts :
          /\ workouts[w].user_id # wlast.sid[1]
          /\ wlast.items[1] < w /\ w < wlast.items[PerPage]

\* ceil(n / PerPage), computed without the division of Paginate.
CeilPages(n) == CHOOSE p \in 0..n : p * PerPage >= n /\ (p - 1) * PerPage < n

\* C9: with N workouts of the user, GET /all has ceil(N/3) pages: every page
\* before the last holds 3 workouts, the last holds N mod 3 (3 when that is 0),
\* a page past the last is not found, and a request without the page parameter
\* is answered as page 1.
C9_Pagination ==
    /\ (wlast.op = "list" /\ wlast.status = 200) =>
          LET n == Cardinality(Owned(wlast.sid[1]))
              np == CeilPages(n)
          IN  /\ wlast.total = n /\ wlast.pages = np
              /\ wlast.page < np => Len(wlast.items) = PerPage
              /\ wlast.page = np =>
                    Len(wlast.items) = IF n % PerPage = 0 THEN PerPage
                                       ELSE n % PerPage
              /\ wlast.page > np => (np = 0 /\ wlast.page = 1 /\ wlast.items = <<>>)
    /\ \A u \in DOMAIN users :
          LET np == CeilPages(Cardinality(Owned(u))) IN
          /\ \A k \in 0..(MaxListed + 1) :
                (UserWorkoutsResponse(<<u>>, PageNumber(k)).status = 200)
                    <=> (k \in 1..np \/ k = 1)
          /\ UserWorkoutsResponse(<<u>>, PageAbsent)
                = UserWorkoutsResponse(<<u>>, PageNumber(1))

C9_Witness ==
    /\ wlast.op = "list" /\ wlast.status = 200
    /\ wlast.pages = 3 /\ wlast.page = 3 /\ Len(wlast.items) = 1

Done(id) == {c \in Clients : clients[c].pc = "done" /\ clients[c].id = id}
Created(id) == {c \in Done(id) : clients[c].status = 201}

\* What both C10 statements share: the store holds at most one record of an
\* id, at most one POST of the id answers 201, and the record stored is the one
\* that request posted and got back.
OneRecordOneCreated(id) ==
    /\ Cardinality({r \in store : r.id = id}) <= 1
    /\ Cardinality(Created(id)) <= 1
    /\ \A c \in Created(id) :
          LET row == ToDoModel(id, clients[c].args.task, clients[c].args.summary)
          IN  row \in store /\ clients[c].body = <<row>>

\* C10 as stated: under concurrent POSTs of one id, one record at most, one
\* 201 at most, and every other request answers 409.
C10_OthersConflict ==
    \A id \in TodoIds :
        /\ OneRecordOneCreated(id)
        /\ \A c \in Done(id) \ Created(id) : clients[c].status = 409

\* C10 amended: under concurrent POSTs of one id, one record at most, one 201
\* at most, and every other request fails and writes nothing: with 409, or
\* with the unhandled error (500) of the primary-key violation when the record
\* was inserted after its lookup; either way the record of the id is stored.
C10_OthersFail ==
    \A id \in TodoIds :
        /\ OneRecordOneCreated(id)
        /\ \A c \in Done(id) \ Created(id) :
              /\ clients[c].status \in {409, 500}
              /\ clients[c].body = <<>>
              /\ Found(store, id)
              /\ Created(id) # {}

C10_Witness ==
    \E c, d \in Clients :
        /\ clients[c].pc = "done" /\ clients[d].pc = "done"
        /\ clients[c].id = clients[d].id
        /\ clients[c].status = 201 /\ clients[d].status = 500
        /\ clients[c].args # clients[d].args

====
